---------------------------- MODULE Spec2Model ----------------------------
(***************************************************************************)
(* A model of RandomNumber.ipynb: the Hopfield-network generator           *)
(* hopfield_prng and its SHA-256-conditioned wrapper hopfield_sha_prng.     *)
(*                                                                         *)
(* Numbers.  numpy works on IEEE-754 binary64.  The model keeps the        *)
(* floating-point semantics (a significand of fixed width, a free exponent, *)
(* every operation rounded to nearest, ties to even) and scales the width:  *)
(* a value is m * 10^e with a significand m of Prec decimal digits.  The    *)
(* exponent range is not bounded: no run of the bounded model comes near    *)
(* the proportion of binary64's.                                            *)
(***************************************************************************)
EXTENDS Integers, Sequences, FiniteSets, TLC

(***************************************************************************)
(* State                                                                   *)
(***************************************************************************)

VARIABLES
    rng,           \* state of np.random, shared by all calls
    blas,          \* accumulation order of this build's dot product
    oracle,        \* SHA-256 as far as it has been asked: input -> digest
    pc,            \* "idle", "loop", "evolve", "serialize", "hash", "convert",
                   \* "done", "error"
    entry,         \* "raw": hopfield_prng called directly; "sha": hopfield_sha_prng
    num_outputs, N, L,
    T, V, outputs, \* locals of hopfield_prng
    l,             \* sub-iterations done for the output under way
    idx,           \* the indices chosen by the last sub-iteration
    raw_sequence, byte_data, hashed,   \* locals of hopfield_sha_prng
    result,        \* the list returned
    seed,          \* rng when the call started
    T0,            \* T as constructed
    nPerturb, nSub, nExtract, nHash,   \* steps taken by the call
    history,       \* finished calls
    calls

vars == << rng, blas, oracle, pc, entry, num_outputs, N, L, T, V, outputs, l, idx,
           raw_sequence, byte_data, hashed, result, seed, T0,
           nPerturb, nSub, nExtract, nHash, history, calls >>

config == << entry, num_outputs, N, L, seed >>

counters == << nPerturb, nSub, nExtract, nHash >>

shaLocals == << raw_sequence, byte_data, hashed >>

(***************************************************************************)
(* Floating point                                                          *)
(***************************************************************************)

\* Significand width in decimal digits (binary64: 53 bits).
Prec == 3

RECURSIVE Pow10(_)
Pow10(n) == IF n <= 0 THEN 1 ELSE 10 * Pow10(n - 1)

Abs(n) == IF n < 0 THEN -n ELSE n

Sgn(n) == IF n < 0 THEN -1 ELSE IF n > 0 THEN 1 ELSE 0

RECURSIVE Digits(_)
Digits(n) == IF n < 10 THEN 1 ELSE 1 + Digits(n \div 10)

\* k: "num" (finite), "inf" (m carries the sign) or "nan".
Flt(mm, ee) == [k |-> "num", m |-> mm, e |-> ee]

Zero == Flt(0, 0)

NaN == [k |-> "nan", m |-> 0, e |-> 0]

Inf(s) == [k |-> "inf", m |-> s, e |-> 0]

IsFinite(x) == x.k = "num"

\* The float nearest to n * 10^ee (ties to even), normalised.
RoundFlt(n, ee) ==
    IF n = 0 THEN Zero
    ELSE LET a == Abs(n)
             d == Digits(a)
         IN  IF d <= Prec
             THEN Flt(Sgn(n) * a * Pow10(Prec - d), ee - (Prec - d))
             ELSE LET sh == d - Prec
                      p  == Pow10(sh)
                      q  == a \div p
                      r  == a % p
                      q1 == IF 2 * r > p \/ (2 * r = p /\ q % 2 = 1)
                            THEN q + 1 ELSE q
                  IN  IF q1 = Pow10(Prec)
                      THEN Flt(Sgn(n) * Pow10(Prec - 1), ee + sh + 1)
                      ELSE Flt(Sgn(n) * q1, ee + sh)

\* A Python int as a float.
FromInt(n) == RoundFlt(n, 0)

One == FromInt(1)

FNeg(x) == [x EXCEPT !.m = -x.m]

\* x + y.  An operand more than Prec + 2 digits below the other cannot move it.
FAdd(x, y) ==
    IF x.k = "nan" \/ y.k = "nan" THEN NaN
    ELSE IF x.k = "inf" THEN (IF y.k = "inf" /\ y.m # x.m THEN NaN ELSE x)
    ELSE IF y.k = "inf" THEN y
    ELSE IF x.m = 0 THEN y
    ELSE IF y.m = 0 THEN x
    ELSE LET hi == IF x.e >= y.e THEN x ELSE y
             lo == IF x.e >= y.e THEN y ELSE x
             d  == hi.e - lo.e
         IN  IF d > Prec + 2 THEN hi
             ELSE RoundFlt(hi.m * Pow10(d) + lo.m, lo.e)

FSub(x, y) == FAdd(x, FNeg(y))

\* x * y.
FMul(x, y) ==
    IF x.k = "nan" \/ y.k = "nan" THEN NaN
    ELSE IF x.k = "inf" \/ y.k = "inf"
         THEN (IF x.m = 0 \/ y.m = 0 THEN NaN ELSE Inf(Sgn(x.m) * Sgn(y.m)))
    ELSE RoundFlt(x.m * y.m, x.e + y.e)

\* x / n for a finite x and a Python int n (numpy: x / 0 is inf or nan, no
\* exception).  The quotient carries Prec + 2 extra digits and a sticky digit.
FDivInt(x, n) ==
    IF n = 0 THEN (IF x.m = 0 THEN NaN ELSE Inf(Sgn(x.m)))
    ELSE LET a  == Abs(x.m) * Pow10(Prec + 2)
             q  == a \div Abs(n)
             r  == a % Abs(n)
             qs == IF r # 0 /\ q % 5 = 0 THEN q + 1 ELSE q
         IN  RoundFlt(Sgn(x.m) * Sgn(n) * qs, x.e - (Prec + 2))

\* x < y for finite x, y.
FLess(x, y) == FSub(x, y).m < 0

\* fmod(x, 1): the fractional part, with the sign of x; exact.
Frac(x) ==
    IF x.e >= 0 THEN Zero
    ELSE IF x.e <= -Prec THEN x
    ELSE RoundFlt(Sgn(x.m) * (Abs(x.m) % Pow10(-x.e)), x.e)

\* x % 1 on a numpy float64 (npy_divmod): fmod, then + 1 when the remainder is
\* negative; that addition is rounded like any other.
FMod1(x) ==
    IF ~IsFinite(x) THEN NaN
    ELSE LET f == Frac(x)
         IN  IF f.m = 0 THEN Zero
             ELSE IF f.m < 0 THEN FAdd(f, One)
             ELSE f

\* tanh by its continued fraction x / (1 + x^2 / (3 + x^2 / (5 + ...))) in units
\* of 10^-4, within one unit in the last place of the rounded tanh.  Below
\* 0.0532 tanh(x) rounds to x, from 4.15 on it rounds to 1.
TanhFix(xu) ==
    LET S  == 10000
        x2 == (xu * xu) \div S
        q5 == 11 * S
        q4 == 9 * S + (x2 * S) \div q5
        q3 == 7 * S + (x2 * S) \div q4
        q2 == 5 * S + (x2 * S) \div q3
        q1 == 3 * S + (x2 * S) \div q2
        q0 == S + (x2 * S) \div q1
    IN  (xu * S) \div q0

Tanh(x) ==
    IF x.m = 0 THEN Zero
    ELSE IF x.e < -1 - Prec THEN x
    ELSE IF x.e > 1 - Prec THEN Flt(Sgn(x.m) * Pow10(Prec - 1), 1 - Prec)
    ELSE LET xu == Abs(x.m) * Pow10(x.e + 4)
         IN  IF xu < 532 THEN x
             ELSE IF xu >= 41500 THEN Flt(Sgn(x.m) * Pow10(Prec - 1), 1 - Prec)
             ELSE LET t == RoundFlt(Sgn(x.m) * TanhFix(xu), -4)
                  IN  IF Abs(t.m) * Pow10(t.e + Prec) > Pow10(Prec)
                      THEN Flt(Sgn(x.m) * Pow10(Prec - 1), 1 - Prec)
                      ELSE t

(***************************************************************************)
(* The ambient random source (numpy's global generator)                    *)
(*                                                                         *)
(* np.random is a deterministic generator with a hidden state; the model    *)
(* keeps that shape with a linear congruential step.  A uniform draw on     *)
(* [-1, 1) comes out on a grid of hundredths.                               *)
(***************************************************************************)

RngNext(s) == (75 * s + 74) % 65537

\* np.random.seed(k): the state a seed stands for.
SeedState(k) == (12345 * k + 6789) % 65537

\* The state after n draws.
RECURSIVE RngSkip(_, _)
RngSkip(s, n) == IF n <= 0 THEN s ELSE RngSkip(RngNext(s), n - 1)

\* np.random.uniform(-1, 1): the value of the n-th draw after state s.
Uniform(s, n) == RoundFlt((RngSkip(s, n) % 200) - 100, -2)

\* permutation(n) by Fisher-Yates from the last place down, one draw per place.
RECURSIVE Shuffle(_, _, _)
Shuffle(p, i, s) ==
    IF i < 2 THEN [perm |-> p, rng |-> s]
    ELSE LET s1 == RngNext(s)
             j  == 1 + (s1 % i)
             q  == [p EXCEPT ![i] = p[j], ![j] = p[i]]
         IN  Shuffle(q, i - 1, s1)

\* np.random.choice(n, size, replace=False): the head of a permutation of
\* 0..n-1 (held 1-based, as every index of the model).
Choice(n, size, s) ==
    LET sh == Shuffle([i \in 1..n |-> i], n, s)
    IN  [idx |-> SubSeq(sh.perm, 1, size), rng |-> sh.rng]

(***************************************************************************)
(* hopfield_prng: the pieces                                               *)
(***************************************************************************)

\* Default b and delta of hopfield_prng.
b == RoundFlt(1, -1)

delta == RoundFlt(1, -2)

\* T = np.random.uniform(-1, 1, (N, N)), row by row, then the diagonal doubled.
InitT(n, s) ==
    [i \in 1..n |->
        [j \in 1..n |->
            LET u == Uniform(s, (i - 1) * n + j)
            IN  IF i = j THEN FMul(u, FromInt(2)) ELSE u]]

\* A faulty variant of InitV: the state vector of the previous call is kept when it fits.
StaleV(n, s) == IF Len(V) = n /\ n > 0 THEN V ELSE [i \in 1..n |-> Uniform(s, n * n + i)]

\* V = np.random.uniform(-1, 1, N), drawn after the N * N draws of T.
InitV(n, s) == [i \in 1..n |-> Uniform(s, n * n + i)]

\* I = np.zeros(N)
I(n) == [i \in 1..n |-> Zero]

\* outputs = []
FreshOutputs == << >>

\* np.triu(np.ones((N, N))) and np.tril(np.ones((N, N)), -1), entry (i, j).
Triu(i, j) == IF j >= i THEN One ELSE Zero

\* A faulty variant of Tril1: np.tril without the -1, the diagonal included.
TrilDiag(i, j) == IF j <= i THEN One ELSE Zero

Tril1(i, j) == IF j <= i - 1 THEN One ELSE Zero

\* T + delta * triu - delta * tril, evaluated left to right.
Perturbed(t, n) ==
    [i \in 1..n |->
        [j \in 1..n |->
            FSub(FAdd(t[i][j], FMul(delta, Triu(i, j))), FMul(delta, Tril1(i, j)))]]

\* Row times vector, accumulated from the first term up or from the last term
\* down: BLAS fixes the order, the source does not.
RECURSIVE DotUp(_, _, _)
DotUp(row, v, j) ==
    IF j = 0 THEN Zero ELSE FAdd(DotUp(row, v, j - 1), FMul(row[j], v[j]))

RECURSIVE DotDown(_, _, _)
DotDown(row, v, j) ==
    IF j > Len(v) THEN Zero ELSE FAdd(DotDown(row, v, j + 1), FMul(row[j], v[j]))

\* np.dot(T, V) and T @ V
MatVec(t, v, order) ==
    [i \in 1..Len(v) |->
        IF order = "up" THEN DotUp(t[i], v, Len(v)) ELSE DotDown(t[i], v, 1)]

\* U = np.dot(T, V) - I
ComputeU(t, v, order) ==
    LET tv == MatVec(t, v, order)
    IN  [i \in 1..Len(v) |-> FSub(tv[i], I(Len(v))[i])]

InSeq(x, sq) == \E k \in 1..Len(sq) : sq[k] = x

\* A faulty variant of Activated: V = np.tanh(b * U), every entry rewritten.
ActivatedAll(v, u, ix) == [i \in 1..Len(v) |-> Tanh(FMul(b, u[i]))]

\* V[idx] = np.tanh(b * U[idx]): U is complete before any entry of V changes.
Activated(v, u, ix) ==
    [i \in 1..Len(v) |-> IF InSeq(i, ix) THEN Tanh(FMul(b, u[i])) ELSE v[i]]

\* np.sum over fewer than 8 terms: one accumulator, first term first.
RECURSIVE SumSeq(_, _)
SumSeq(sq, j) == IF j = 0 THEN Zero ELSE FAdd(SumSeq(sq, j - 1), sq[j])

\* scaled = np.sum(np.tanh(T @ V)) / (L * N)
Scaled(t, v, ll, order) ==
    LET w == MatVec(t, v, order)
        a == [i \in 1..Len(v) |-> Tanh(w[i])]
    IN  FDivInt(SumSeq(a, Len(v)), ll * Len(v))

\* fractional = (1000 * scaled) % 1
Fractional(sc) == FMod1(FMul(FromInt(1000), sc))

(***************************************************************************)
(* hopfield_sha_prng: the pieces                                           *)
(*                                                                         *)
(* Integers up to 2^32 are held as two 16-bit limbs, hi * 65536 + lo.       *)
(***************************************************************************)

Limbs(h, w) == [hi |-> h, lo |-> w]

LimbLess(x, y) == x.hi < y.hi \/ (x.hi = y.hi /\ x.lo < y.lo)

\* 2**32
TwoPow32 == Limbs(65536, 0)

\* int(x) for a finite x >= 0 below 4.3 * 10^9, truncating.  From 10^4 on the
\* value is m * 10^(e-4) * 625 * 16.
ToInt(x) ==
    IF x.e < 0 THEN LET v == x.m \div Pow10(-x.e) IN Limbs(v \div 65536, v % 65536)
    ELSE IF x.e < 4 THEN LET v == x.m * Pow10(x.e) IN Limbs(v \div 65536, v % 65536)
    ELSE LET w == x.m * Pow10(x.e - 4) * 625 IN Limbs(w \div 4096, (w % 4096) * 16)

\* int(val * 10**9).to_bytes(4, 'big') succeeds: int() raises on nan and inf,
\* to_bytes on a negative value and on one of more than 4 bytes.
Encodable(val) ==
    LET x == FMul(val, FromInt(1000000000))
    IN  /\ IsFinite(x)
        /\ x.m >= 0
        /\ x.e <= 7
        /\ LimbLess(ToInt(x), TwoPow32)

\* int(val * 10**9).to_bytes(4, 'big')
ToBytes4(val) ==
    LET v == ToInt(FMul(val, FromInt(1000000000)))
    IN  << v.hi \div 256, v.hi % 256, v.lo \div 256, v.lo % 256 >>

\* b''.join(... for val in raw_sequence)
RECURSIVE JoinBytes(_, _)
JoinBytes(sq, j) == IF j = 0 THEN << >> ELSE JoinBytes(sq, j - 1) \o ToBytes4(sq[j])

\* sha256(b'').digest()
EmptyDigest ==
    << 227, 176, 196, 66, 152, 252, 28, 20, 154, 251, 244, 200, 153, 111, 185, 36,
       39, 174, 65, 228, 100, 155, 147, 76, 164, 149, 153, 27, 120, 82, 184, 85 >>

\* Length of a SHA-256 digest, and of the slices it is cut into.
DigestBytes == 32

WordBytes == 4

\* The digests SHA-256 may give a non-empty input: all zero, all ones, mixed.
Digest(c) ==
    [i \in 1..DigestBytes |->
        IF c = 0 THEN 0 ELSE IF c = 1 THEN 255 ELSE (37 * c * i + 11 * c) % 256]

\* int.from_bytes(bs, 'big')
RECURSIVE Horner(_, _)
Horner(bs, j) == IF j = 0 THEN 0 ELSE 256 * Horner(bs, j - 1) + bs[j]

FromBytes(bs) ==
    IF Len(bs) <= 2 THEN Limbs(0, Horner(bs, Len(bs)))
    ELSE Limbs(Horner(SubSeq(bs, 1, Len(bs) - 2), Len(bs) - 2),
               Horner(SubSeq(bs, Len(bs) - 1, Len(bs)), 2))

\* hashed[i:i+4] for the i-th slice (i from 0); a Python slice stops at the end.
Slice4(h, i) ==
    SubSeq(h, WordBytes * i + 1,
           IF WordBytes * i + WordBytes <= Len(h) THEN WordBytes * i + WordBytes ELSE Len(h))

\* A faulty variant of WordFloat: the word divided by 2**31.
WordFloatBy31(bs) == [num |-> FromBytes(bs), den |-> Limbs(32768, 0)]

\* int.from_bytes(...) / 2**32: the quotient, exact in binary64 for a numerator
\* of at most 32 bits, kept as numerator and denominator.
WordFloat(bs) == [num |-> FromBytes(bs), den |-> TwoPow32]

\* [... for i in range(0, len(hashed), 4)]
Words(h) ==
    [i \in 1..((Len(h) + WordBytes - 1) \div WordBytes) |-> WordFloat(Slice4(h, i - 1))]

\* sq[:n]
PySlice(sq, n) ==
    SubSeq(sq, 1, IF n >= 0 THEN (IF n < Len(sq) THEN n ELSE Len(sq))
                  ELSE (IF Len(sq) + n > 0 THEN Len(sq) + n ELSE 0))

(***************************************************************************)
(* Bounds                                                                  *)
(***************************************************************************)

\* Seeds a run may start from: 0..MaxSeed.
MaxSeed == 5

\* Arguments of a direct hopfield_prng call: num_outputs in -1..MaxOut,
\* N in -1..MaxN, L in -1..MaxL.
MaxOut == 3

MaxN == 3

MaxL == 3

\* hopfield_sha_prng runs hopfield_prng on its defaults, N = 100 and L = 10;
\* the model runs that call on DefaultN neurons and DefaultL sub-iterations.
DefaultN == 2

DefaultL == 1

\* Digests tried for a non-empty input: Digest(0..MaxDigest).
MaxDigest == 2

\* Calls in a row under SpecDet.
MaxCalls == 2

Seeds == {SeedState(k) : k \in 0..MaxSeed}

RawOutputs == -1..MaxOut

Ns == -1..MaxN

Ls == -1..MaxL

\* num_outputs of a hopfield_sha_prng call: up to one more than a digest holds.
ShaOutputs == -1..(DigestBytes \div WordBytes + 1)

Digests == {Digest(c) : c \in 0..MaxDigest}

\* The state before any call, np.random in one of the given states.
InitFrom(seeds) ==
    /\ rng \in seeds
    /\ blas \in {"up", "down"}
    /\ oracle = (<< >> :> EmptyDigest)
    /\ pc = "idle"
    /\ entry = "none"
    /\ num_outputs = 0 /\ N = 0 /\ L = 0
    /\ T = << >> /\ V = << >> /\ outputs = << >>
    /\ l = 0
    /\ idx = << >>
    /\ raw_sequence = << >> /\ byte_data = << >> /\ hashed = << >>
    /\ result = << >>
    /\ seed = 0
    /\ T0 = << >>
    /\ nPerturb = 0 /\ nSub = 0 /\ nExtract = 0 /\ nHash = 0
    /\ history = {}
    /\ calls = 0

Init == InitFrom(Seeds)

\* What a finished call leaves behind.
Finished(ent, n, nn, ll, sd, status, res) ==
    [entry |-> ent, num_outputs |-> n, N |-> nn, L |-> ll, seed |-> sd,
     status |-> status, result |-> res]

(***************************************************************************)
(* hopfield_prng                                                           *)
(***************************************************************************)

\* Entry and lines 23-30.  np.random.uniform raises on a negative dimension.
Call(ent, n, nn, ll) ==
    /\ pc = "idle"
    /\ calls' = calls + 1
    /\ entry' = ent /\ num_outputs' = n /\ N' = nn /\ L' = ll
    /\ seed' = rng
    /\ l' = 0 /\ idx' = << >>
    /\ raw_sequence' = << >> /\ byte_data' = << >> /\ hashed' = << >>
    /\ result' = << >>
    /\ nPerturb' = 0 /\ nSub' = 0 /\ nExtract' = 0 /\ nHash' = 0
    /\ IF nn < 0
       THEN /\ pc' = "error"
            /\ T' = << >> /\ T0' = << >> /\ V' = << >> /\ outputs' = << >>
            /\ history' = history \cup {Finished(ent, n, nn, ll, rng, "error", << >>)}
            /\ UNCHANGED rng
       ELSE /\ pc' = "loop"
            /\ T' = InitT(nn, rng)
            /\ T0' = InitT(nn, rng)
            /\ V' = InitV(nn, rng)
            /\ rng' = RngSkip(rng, nn * nn + nn)
            /\ outputs' = FreshOutputs
            /\ UNCHANGED history
    /\ UNCHANGED << blas, oracle >>

CallRaw(n, nn, ll) == Call("raw", n, nn, ll)

\* raw_sequence = hopfield_prng(num_outputs)
CallSha(n) == Call("sha", n, DefaultN, DefaultL)

\* A faulty variant of OuterContinues: range(num_outputs + 1).
OuterOneMore == Len(outputs) < num_outputs + 1

\* for _ in range(num_outputs): another turn is due.
OuterContinues == Len(outputs) < num_outputs

\* A faulty variant of InnerContinues: range(L + 1).
InnerOneMore == l < L + 1

\* for _ in range(L): another turn is due.
InnerContinues == l < L

\* Line 34, once per turn of the outer loop.
Perturb ==
    /\ pc = "loop"
    /\ OuterContinues
    /\ T' = Perturbed(T, N)
    /\ l' = 0
    /\ pc' = "evolve"
    /\ nPerturb' = nPerturb + 1
    /\ UNCHANGED << rng, blas, oracle, config, V, outputs, idx, shaLocals, result, T0,
                    nSub, nExtract, nHash, history, calls >>

\* Lines 38-40, one turn of the inner loop.  np.random.choice raises when asked
\* for more indices than there are.
SubIter ==
    /\ pc = "evolve"
    /\ InnerContinues
    /\ IF N \div 2 + 1 > N
       THEN /\ pc' = "error"
            /\ history' = history \cup
                 {Finished(entry, num_outputs, N, L, seed, "error", << >>)}
            /\ UNCHANGED << rng, V, idx, l, nSub >>
       ELSE LET c == Choice(N, N \div 2 + 1, rng)
                U == ComputeU(T, V, blas)
            IN  /\ idx' = c.idx
                /\ rng' = c.rng
                /\ V' = Activated(V, U, c.idx)
                /\ l' = l + 1
                /\ nSub' = nSub + 1
                /\ UNCHANGED << pc, history >>
    /\ UNCHANGED << blas, oracle, config, T, outputs, shaLocals, result, T0,
                    nPerturb, nExtract, nHash, calls >>

\* Lines 43-45.
Extract ==
    /\ pc = "evolve"
    /\ ~InnerContinues
    /\ outputs' = Append(outputs, Fractional(Scaled(T, V, L, blas)))
    /\ pc' = "loop"
    /\ nExtract' = nExtract + 1
    /\ UNCHANGED << rng, blas, oracle, config, T, V, l, idx, shaLocals, result, T0,
                    nPerturb, nSub, nHash, history, calls >>

\* Line 47: return outputs, to the caller or into raw_sequence (line 122).
Return ==
    /\ pc = "loop"
    /\ ~OuterContinues
    /\ IF entry = "raw"
       THEN /\ pc' = "done"
            /\ result' = outputs
            /\ history' = history \cup
                 {Finished(entry, num_outputs, N, L, seed, "done", outputs)}
            /\ UNCHANGED raw_sequence
       ELSE /\ pc' = "serialize"
            /\ raw_sequence' = outputs
            /\ UNCHANGED << result, history >>
    /\ UNCHANGED << rng, blas, oracle, config, T, V, outputs, l, idx, byte_data, hashed,
                    T0, counters, calls >>

(***************************************************************************)
(* hopfield_sha_prng                                                       *)
(***************************************************************************)

\* Line 125.
Serialize ==
    /\ pc = "serialize"
    /\ IF \A j \in 1..Len(raw_sequence) : Encodable(raw_sequence[j])
       THEN /\ byte_data' = JoinBytes(raw_sequence, Len(raw_sequence))
            /\ pc' = "hash"
            /\ UNCHANGED history
       ELSE /\ pc' = "error"
            /\ history' = history \cup
                 {Finished(entry, num_outputs, N, L, seed, "error", << >>)}
            /\ UNCHANGED byte_data
    /\ UNCHANGED << rng, blas, oracle, config, T, V, outputs, l, idx, raw_sequence,
                    hashed, result, T0, counters, calls >>

\* Line 126.  SHA-256 is a function: an input met before gets its digest again.
Hash ==
    /\ pc = "hash"
    /\ \E d \in (IF byte_data \in DOMAIN oracle THEN {oracle[byte_data]} ELSE Digests) :
          /\ hashed' = d
          /\ oracle' = (byte_data :> d) @@ oracle
    /\ pc' = "convert"
    /\ nHash' = nHash + 1
    /\ UNCHANGED << rng, blas, config, T, V, outputs, l, idx, raw_sequence, byte_data,
                    result, T0, nPerturb, nSub, nExtract, history, calls >>

\* Line 129.
Convert ==
    /\ pc = "convert"
    /\ result' = PySlice(Words(hashed), num_outputs)
    /\ pc' = "done"
    /\ history' = history \cup
         {Finished(entry, num_outputs, N, L, seed, "done",
                   PySlice(Words(hashed), num_outputs))}
    /\ UNCHANGED << rng, blas, oracle, config, T, V, outputs, l, idx, shaLocals, T0,
                    counters, calls >>

(***************************************************************************)
(* Specifications                                                          *)
(***************************************************************************)

StartRaw == \E n \in RawOutputs, nn \in Ns, ll \in Ls : CallRaw(n, nn, ll)

StartSha == \E n \in ShaOutputs : CallSha(n)

Next ==
    \/ StartRaw
    \/ StartSha
    \/ Perturb
    \/ SubIter
    \/ Extract
    \/ Return
    \/ Serialize
    \/ Hash
    \/ Convert

\* One call from any seed, on any arguments of the bounds.
Spec == Init /\ [][Next]_vars

\* Two calls in a row, each on the defaults, the random source left as it is or
\* seeded again in between.
DetSeeds == {SeedState(0), SeedState(1)}

DetOutputs == 1..2

InitDet == InitFrom(DetSeeds)

StartRawDet == \E n \in DetOutputs : CallRaw(n, DefaultN, DefaultL)

StartShaDet == \E n \in DetOutputs : CallSha(n)

\* The caller takes the result; np.random.seed may be called before the next call.
Again ==
    /\ pc \in {"done", "error"}
    /\ calls < MaxCalls
    /\ pc' = "idle"
    /\ rng' \in DetSeeds \cup {rng}
    /\ UNCHANGED << blas, oracle, config, T, V, outputs, l, idx, shaLocals, result, T0,
                    counters, history, calls >>

NextDet ==
    \/ StartRawDet
    \/ StartShaDet
    \/ Perturb
    \/ SubIter
    \/ Extract
    \/ Return
    \/ Serialize
    \/ Hash
    \/ Convert
    \/ Again

SpecDet == InitDet /\ [][NextDet]_vars

(***************************************************************************)
(* Properties                                                              *)
(***************************************************************************)

\* The arguments section 4.4 of the specification calls valid.
Valid == N >= 2 /\ L >= 1 /\ num_outputs >= 0

Started == entry # "none"

\* Values one digest yields: 8.
DigestWords == DigestBytes \div WordBytes

\* C1: for every num_outputs >= 0, hopfield_sha_prng returns a list of exactly
\* num_outputs values.
C1_LengthIsNumOutputs ==
    (entry = "sha" /\ pc = "done" /\ num_outputs >= 0) => Len(result) = num_outputs

\* C2: asked for more values than one digest holds, hopfield_sha_prng either
\* fails or returns all of them; it never returns normally with fewer.
C2_NoSilentTruncation ==
    (entry = "sha" /\ num_outputs > DigestWords /\ pc = "done")
        => Len(result) = num_outputs

\* q = num / den lies in [0, 1).
InUnitQ(q) ==
    /\ q.num.hi >= 0 /\ q.num.lo \in 0..65535
    /\ LimbLess(q.num, q.den)

\* C3: every value hopfield_sha_prng returns is w / 2^32 for w the big-endian
\* reading of 4 consecutive digest bytes, 0 <= w <= 2^32 - 1, hence in [0, 1).
C3_OutputInUnitInterval ==
    (entry = "sha" /\ pc = "done") =>
        \A i \in 1..Len(result) :
            /\ result[i].num.hi = 256 * hashed[4 * i - 3] + hashed[4 * i - 2]
            /\ result[i].num.lo = 256 * hashed[4 * i - 1] + hashed[4 * i]
            /\ result[i].num.hi <= 65535
            /\ InUnitQ(result[i])

\* A full digest of ones came back in full: every word is 2^32 - 1.
C3_Witness ==
    /\ entry = "sha" /\ pc = "done"
    /\ Len(result) = DigestWords
    /\ result[1].num = Limbs(65535, 65535)

\* C4: two calls that start from the same state of the random source with the
\* same arguments end the same way with the same list.
C4_Deterministic ==
    \A h1, h2 \in history :
        (/\ h1.entry = h2.entry /\ h1.num_outputs = h2.num_outputs
         /\ h1.N = h2.N /\ h1.L = h2.L /\ h1.seed = h2.seed)
            => (h1.status = h2.status /\ h1.result = h2.result)

\* The second hopfield_sha_prng call repeated the first, seed and arguments, and
\* returned values.
C4_Witness ==
    /\ calls = 2 /\ pc = "done" /\ entry = "sha"
    /\ Len(result) >= 1
    /\ Cardinality(history) = 1

\* C5: a call with N < 2, L < 1 or num_outputs < 0 is refused at construction
\* and returns nothing.
C5_InvalidConfigRejected ==
    (Started /\ ~Valid) => (pc = "error" /\ result = << >>)

\* C6: with num_outputs = 0 no perturbation, sub-iteration or extraction runs,
\* both functions return the empty list, and SHA-256 is applied at most once,
\* to the empty byte string.
C6_ZeroOutputs ==
    (Started /\ num_outputs = 0) =>
        /\ nPerturb = 0 /\ nSub = 0 /\ nExtract = 0
        /\ outputs = << >>
        /\ pc = "done" => result = << >>
        /\ N >= 0 => pc # "error"
        /\ nHash <= 1
        /\ nHash = 1 => (entry = "sha" /\ byte_data = << >> /\ hashed = EmptyDigest)

C6_Witness ==
    /\ entry = "sha" /\ num_outputs = 0 /\ pc = "done"
    /\ nHash = 1 /\ result = << >>

\* x is a whole number of hundredths, and that number.
OnGrid(x) == x.m = 0 \/ x.e >= -2 \/ x.m % Pow10(-2 - x.e) = 0

Hundredths(x) ==
    IF x.e >= -2 THEN x.m * Pow10(x.e + 2) ELSE x.m \div Pow10(-2 - x.e)

UpperCells(n) == {c \in (1..n) \X (1..n) : c[1] <= c[2]}

LowerCells(n) == {c \in (1..n) \X (1..n) : c[1] > c[2]}

RECURSIVE SumOver(_, _)
SumOver(t, cells) ==
    IF cells = {} THEN 0
    ELSE LET c == CHOOSE x \in cells : TRUE
         IN  Hundredths(t[c[1]][c[2]]) + SumOver(t, cells \ {c})

\* (sum of the entries with row <= column) - (sum of those with row > column),
\* in hundredths.
Skew(t, n) == SumOver(t, UpperCells(n)) - SumOver(t, LowerCells(n))

\* C7 as stated: after k perturbations the skew has grown by k * delta *
\* (cells with row <= column - cells with row > column).
C7_SkewGrowsByDifference ==
    (Started /\ N >= 0 /\ pc # "error") =>
        Skew(T, N) - Skew(T0, N) =
            nPerturb * Hundredths(delta)
                * (Cardinality(UpperCells(N)) - Cardinality(LowerCells(N)))

\* C7 amended: after k perturbations the skew has grown by k * delta *
\* (cells with row <= column + cells with row > column) = k * delta * N^2; the
\* entries stay on the grid, so every addition of the model is exact.
C7_SkewGrowsBySum ==
    (Started /\ N >= 0 /\ pc # "error") =>
        /\ \A c \in (1..N) \X (1..N) : OnGrid(T[c[1]][c[2]])
        /\ Skew(T, N) - Skew(T0, N) =
            nPerturb * Hundredths(delta)
                * (Cardinality(UpperCells(N)) + Cardinality(LowerCells(N)))

C7_Witness == N = 3 /\ nPerturb = 3 /\ pc = "evolve"

\* C8: a sub-iteration chooses N div 2 + 1 distinct indices; V changes to
\* tanh(b * U[i]) at those, with U from T and the V before the sub-iteration,
\* and nowhere else.
C8_SubIterFrame ==
    [][nSub' = nSub + 1 =>
        /\ Len(idx') = N \div 2 + 1
        /\ \A j \in 1..Len(idx') : idx'[j] \in 1..N
        /\ \A j, k \in 1..Len(idx') : j # k => idx'[j] # idx'[k]
        /\ \A i \in 1..N :
              V'[i] = IF InSeq(i, idx')
                      THEN Tanh(FMul(b, ComputeU(T, V, blas)[i]))
                      ELSE V[i]]_vars

\* Two sub-iterations done on three neurons, one of them left out of the last.
C8_Witness ==
    /\ pc = "evolve" /\ N = 3 /\ nSub >= 2
    /\ \E i \in 1..N : ~InSeq(i, idx)

\* C9: each output takes one perturbation, then L sub-iterations, then one
\* extraction, nothing interleaved; a run that returns num_outputs samples has
\* made num_outputs perturbations and num_outputs * L sub-iterations.
\* (For L < 0 range(L) is empty and there is nothing to count.)
C9_StepOrder ==
    (Started /\ L >= 0) =>
        /\ nExtract = Len(outputs)
        /\ pc = "loop" => (nPerturb = Len(outputs) /\ nSub = Len(outputs) * L)
        /\ pc = "evolve" =>
              (/\ nPerturb = Len(outputs) + 1
               /\ l <= L
               /\ nSub = Len(outputs) * L + l)
        /\ (pc \in {"serialize", "hash", "convert", "done"} /\ num_outputs >= 0) =>
              (/\ Len(outputs) = num_outputs
               /\ nPerturb = num_outputs
               /\ nSub = num_outputs * L)

C9_Witness ==
    /\ entry = "raw" /\ pc = "done"
    /\ num_outputs = 3 /\ L = 2 /\ N = 3
    /\ nSub = 6

\* x lies in [0, 1).
InUnit(x) == IsFinite(x) /\ x.m >= 0 /\ FLess(x, One)

\* C10: under valid arguments every raw sample lies in [0, 1).
C10_RawSampleInUnit ==
    (Started /\ Valid) => \A i \in 1..Len(outputs) : InUnit(outputs[i])

=============================================================================
